---------------------------- MODULE Spec2Model ----------------------------
(***************************************************************************)
(* hdiff: chunk-based signature / delta computation.                       *)
(*                                                                         *)
(* The model follows src/src/processor.rs (Processor::process_delta and    *)
(* Processor::process_signature), driven by two file-backed chunk sources  *)
(* (src/src/input_file.rs) and one file-backed sink                        *)
(* (src/src/output_file.rs), wired as in src/src/main.rs: the new file is  *)
(* read with the configured chunk size, the signature file with            *)
(* HASH_SIZE.                                                              *)
(*                                                                         *)
(* Every I/O call of process_delta is one step of the state machine, so    *)
(* that a failing write, read or seek can be interleaved exactly where the *)
(* code can observe it.                                                    *)
(***************************************************************************)
EXTENDS Integers, Sequences, FiniteSets, TLC

(***************************************************************************)
(* Bounds of the model.                                                    *)
(***************************************************************************)
\* longest file (old or new), in bytes
MaxLen == 4
\* largest configured chunk size, in bytes
MaxChunk == 2
\* most I/O calls (reads, writes, seeks) that fail in one run
MaxFaults == 1
\* most calls made on a chunk source that is exercised on its own
MaxCalls == 7
\* the largest number of digests of a signature that is not that of a file
MaxSig == 2

\* the byte values files are made of (disjoint from the four tag bytes, so
\* that a tag is recognisable in the sink by its value)
Byte == {4, 5}

\* all files of at most MaxLen bytes
Files == UNION {[1..k -> Byte] : k \in 0..MaxLen}

(***************************************************************************)
(* Program constants (processor.rs).                                       *)
(***************************************************************************)
HASH_SIZE == 32

TAG_SAME_HASH == <<0>>
TAG_DIFFERENT_HASH == <<1>>
TAG_INSERTED_CHUNK == <<2>>
TAG_REMOVED_CHUNK == <<3>>

(***************************************************************************)
(* calculate_chunk_hash: SHA-256 is modelled by an injective map from      *)
(* chunks (of fewer than HASH_SIZE bytes) onto HASH_SIZE-byte strings: the *)
(* length of the chunk plus one, the chunk, zero padding.  What the engine *)
(* uses of the digest is its size and byte equality.                       *)
(***************************************************************************)
calculate_chunk_hash(chunk) ==
    [i \in 1..HASH_SIZE |->
        IF i = 1 THEN Len(chunk) + 1
        ELSE IF i - 1 <= Len(chunk) THEN chunk[i - 1]
        ELSE 0]

(***************************************************************************)
(* InputFile (input_file.rs).  data/pos stand for the BufReader over the   *)
(* file: the file's bytes and the read position.                           *)
(***************************************************************************)
\* InputFile::new: chunk is resized to chunk_size zero bytes, len_to_read
\* is the file's length
InputFile_new(data, chunk_size) ==
    [data        |-> data,
     pos         |-> 0,
     chunk_size  |-> chunk_size,
     chunk       |-> [i \in 1..chunk_size |-> 0],
     len_to_read |-> Len(data)]

\* mutant: the buffer is not shortened for the final, partial chunk
truncate_m(v, n) == v

\* Vec::truncate: shortens the vector, never lengthens it
truncate(v, n) == IF n < Len(v) THEN SubSeq(v, 1, n) ELSE v

\* does this call of get_next_data reach the underlying reader with a
\* non-empty buffer (only then can the read fail)
IssuesRead(f) ==
    /\ f.len_to_read # 0
    /\ Len(IF f.len_to_read < f.chunk_size
           THEN truncate(f.chunk, f.len_to_read) ELSE f.chunk) > 0

\* mutant: after a failed read the buffer is returned as it is
get_next_data_m(f, io_ok) ==
    IF f.len_to_read = 0
    THEN [f EXCEPT !.chunk = <<>>]
    ELSE LET buf == IF f.len_to_read < f.chunk_size
                    THEN truncate(f.chunk, f.len_to_read)
                    ELSE f.chunk
         IN  IF io_ok /\ f.pos + Len(buf) <= Len(f.data)
             THEN [f EXCEPT !.chunk = SubSeq(f.data, f.pos + 1, f.pos + Len(buf)),
                            !.pos = f.pos + Len(buf),
                            !.len_to_read = f.len_to_read - Len(buf)]
             ELSE [f EXCEPT !.chunk = buf]

\* InputFile::get_next_data; io_ok: the outcome of the underlying read.
\* The chunk returned is the chunk field of the result.  (The
\* usize::try_from error branch cannot be taken: len_to_read < chunk_size
\* there.)  After a failed read_exact the reader's position is unspecified;
\* it is never observed again, because chunk stays empty from then on.
get_next_data(f, io_ok) ==
    IF f.len_to_read = 0
    THEN [f EXCEPT !.chunk = <<>>]
    ELSE LET buf == IF f.len_to_read < f.chunk_size
                    THEN truncate(f.chunk, f.len_to_read)
                    ELSE f.chunk
         IN  IF io_ok /\ f.pos + Len(buf) <= Len(f.data)
             THEN [f EXCEPT !.chunk = SubSeq(f.data, f.pos + 1, f.pos + Len(buf)),
                            !.pos = f.pos + Len(buf),
                            !.len_to_read = f.len_to_read - Len(buf)]
             ELSE [f EXCEPT !.chunk = <<>>]

\* mutant: the rewind is by chunk_size bytes, whatever the last read returned
move_back_last_read_whole(f, io_ok) ==
    [f EXCEPT !.len_to_read = f.len_to_read + f.chunk_size,
              !.pos = IF io_ok THEN f.pos - f.chunk_size ELSE f.pos]

\* mutant: len_to_read is not given back the length of the chunk
move_back_last_read_m(f, io_ok) ==
    [f EXCEPT !.pos = IF io_ok THEN f.pos - Len(f.chunk) ELSE f.pos]

\* can the seek of this move_back_last_read fail: seek_relative(0) is served
\* from the BufReader's buffer and always succeeds
IssuesSeek(f) == Len(f.chunk) > 0

\* InputFile::move_back_last_read; io_ok: the outcome of seek_relative, which
\* is also the value returned.  len_to_read is increased before the seek.
move_back_last_read(f, io_ok) ==
    [f EXCEPT !.len_to_read = f.len_to_read + Len(f.chunk),
              !.pos = IF io_ok THEN f.pos - Len(f.chunk) ELSE f.pos]

(***************************************************************************)
(* MemData (processor.rs, tests): the in-memory chunk source.  ret is the  *)
(* slice the last get_next_data returned.                                  *)
(***************************************************************************)
MemData_new_input(chunk_size, data) ==
    [data           |-> data,
     location       |-> 0,
     chunk_size     |-> chunk_size,
     last_read_size |-> 0,
     ret            |-> <<>>]

MemData_new_output == MemData_new_input(0, <<>>)

\* mutant: at the end of the data an empty slice is returned, the vector and
\* last_read_size are left as they are
MemData_get_next_data_m(m) ==
    IF m.location >= Len(m.data)
    THEN [m EXCEPT !.ret = <<>>]
    ELSE IF m.location + m.chunk_size >= Len(m.data)
    THEN [m EXCEPT !.ret = SubSeq(m.data, m.location + 1, Len(m.data)),
                   !.last_read_size = Len(m.data) - m.location,
                   !.location = Len(m.data)]
    ELSE [m EXCEPT !.ret = SubSeq(m.data, m.location + 1, m.location + m.chunk_size),
                   !.last_read_size = m.chunk_size,
                   !.location = m.location + m.chunk_size]

\* MemData::get_next_data: at the end of the data the vector is cleared
MemData_get_next_data(m) ==
    IF m.location >= Len(m.data)
    THEN [m EXCEPT !.data = <<>>, !.last_read_size = 0, !.ret = <<>>]
    ELSE IF m.location + m.chunk_size >= Len(m.data)
    THEN [m EXCEPT !.ret = SubSeq(m.data, m.location + 1, Len(m.data)),
                   !.last_read_size = Len(m.data) - m.location,
                   !.location = Len(m.data)]
    ELSE [m EXCEPT !.ret = SubSeq(m.data, m.location + 1, m.location + m.chunk_size),
                   !.last_read_size = m.chunk_size,
                   !.location = m.location + m.chunk_size]

\* MemData::move_back_last_read: always true
MemData_move_back_last_read(m) ==
    [m EXCEPT !.location = m.location - m.last_read_size]

(***************************************************************************)
(* OutputFile::write_data (output_file.rs): the sink is the sequence of    *)
(* the data of the writes it accepted; a write that reports failure adds   *)
(* nothing.  (Tags and chunks are taken whole by the BufWriter.)           *)
(***************************************************************************)
write_data(o, data, io_ok) == IF io_ok THEN Append(o, data) ELSE o

(***************************************************************************)
(* Processor::process_signature over a file-backed source and a sink that  *)
(* accepts every write: the sink's bytes after the run.                    *)
(***************************************************************************)
RECURSIVE signature_loop(_, _)
signature_loop(f, sink) ==
    LET g == get_next_data(f, TRUE)
    IN  IF g.chunk = <<>> THEN sink
        ELSE signature_loop(g, sink \o calculate_chunk_hash(g.chunk))

process_signature(data, chunk_size) ==
    signature_loop(InputFile_new(data, chunk_size), <<>>)

(***************************************************************************)
(* State.                                                                  *)
(***************************************************************************)
VARIABLES
    old,                    \* the old file's bytes (the signature is made of it)
    input_file,             \* self.input_file: the new file's InputFile
    signature_file,         \* signature_file: the signature's InputFile
    output_file,            \* self.output_file: the writes the sink accepted
    input_file_chunk,       \* locals of process_delta
    hash,
    sig_hash,
    input_file_chunk_prev,
    hash_next,
    sig_hash_prev,
    pc,                     \* position in process_delta
    result,                 \* "none" while running, then "Ok", "FileWrite", "FileSeek"
    calls,                  \* history: the I/O calls issued so far, with their outcome
    earlier_runs,           \* history: the runs of the command finished before this one
    mem_data                \* a MemData source (exercised beside an InputFile)

sources == <<input_file, signature_file>>
elsewhere == <<earlier_runs, mem_data>>
lookahead == <<input_file_chunk_prev, hash_next, sig_hash_prev>>
vars == <<old, input_file, signature_file, output_file, input_file_chunk, hash,
          sig_hash, input_file_chunk_prev, hash_next, sig_hash_prev, pc, result,
          calls, earlier_runs, mem_data>>

\* main.rs:70-93: the new file is opened with the chunk size, the signature
\* file with HASH_SIZE; the signature file is the one process_signature
\* wrote for the old file with the same chunk size
Init ==
    \E chunk_size \in 1..MaxChunk, o \in Files, n \in Files :
        /\ old = o
        /\ input_file = InputFile_new(n, chunk_size)
        /\ signature_file = InputFile_new(process_signature(o, chunk_size), HASH_SIZE)
        /\ output_file = <<>>
        /\ input_file_chunk = <<>>
        /\ hash = <<>>
        /\ sig_hash = <<>>
        /\ input_file_chunk_prev = <<>>
        /\ hash_next = <<>>
        /\ sig_hash_prev = <<>>
        /\ pc = "loop"
        /\ result = "none"
        /\ calls = <<>>
        /\ earlier_runs = <<>>
        /\ mem_data = MemData_new_output

(***************************************************************************)
(* Steps shared by the actions.                                            *)
(***************************************************************************)
\* one more I/O call: where it is issued, on which object, which operation,
\* its outcome, and its data (the chunk returned, written or moved back over)
Called(on, op, io_ok, data) ==
    calls' = Append(calls, [at |-> pc, on |-> on, op |-> op, ok |-> io_ok, data |-> data])

Return(r) == pc' = "done" /\ result' = r

Goto(l) == pc' = l /\ result' = result

\* the calls that failed so far, and whether one more may fail
Failed == {i \in DOMAIN calls : ~calls[i].ok}
MayFail == Cardinality(Failed) < MaxFaults

\* the outcomes the underlying read / seek / write of a call can have
ReadOutcomes(f) == IF IssuesRead(f) /\ MayFail THEN BOOLEAN ELSE {TRUE}
SeekOutcomes(f) == IF IssuesSeek(f) /\ MayFail THEN BOOLEAN ELSE {TRUE}
WriteOutcomes == IF MayFail THEN BOOLEAN ELSE {TRUE}

\* `if !self.output_file.write_data(data) { return Err(FileWrite) }`, then on
\* to position l
WriteOrFail(data, l) ==
    \E io_ok \in WriteOutcomes :
        /\ output_file' = write_data(output_file, data, io_ok)
        /\ Called("output_file", "write", io_ok, data)
        /\ IF io_ok THEN Goto(l) ELSE Return("FileWrite")

\* `self.output_file.write_data(data);`: the value returned is dropped
WriteUnchecked(data, l) ==
    \E io_ok \in WriteOutcomes :
        /\ output_file' = write_data(output_file, data, io_ok)
        /\ Called("output_file", "write", io_ok, data)
        /\ Goto(l)

(***************************************************************************)
(* Processor::process_delta (processor.rs:59-125).                         *)
(***************************************************************************)
\* 63-66: read the next chunk of the new file; empty: break, Ok(())
ReadNew ==
    /\ pc = "loop"
    /\ \E io_ok \in ReadOutcomes(input_file) :
        LET f == get_next_data(input_file, io_ok)
        IN  /\ input_file' = f
            /\ input_file_chunk' = f.chunk
            /\ Called("input_file", "next", io_ok, f.chunk)
            /\ IF f.chunk = <<>>
               THEN Return("Ok") /\ hash' = hash
               ELSE Goto("read_sig") /\ hash' = calculate_chunk_hash(f.chunk)
    /\ UNCHANGED <<elsewhere, old, signature_file, output_file, sig_hash, lookahead>>

\* mutant: the end of the signature ends the run, without the tail loop
ReadSig_m ==
    /\ pc = "read_sig"
    /\ \E io_ok \in ReadOutcomes(signature_file) :
        LET f == get_next_data(signature_file, io_ok)
        IN  /\ signature_file' = f
            /\ sig_hash' = f.chunk
            /\ Called("signature_file", "next", io_ok, f.chunk)
            /\ IF f.chunk = <<>> THEN Return("Ok")
               ELSE IF hash = f.chunk THEN Goto("same")
               ELSE Goto("look_new")
    /\ UNCHANGED <<elsewhere, old, input_file, output_file, input_file_chunk, hash, lookahead>>

\* 68-69, 80, 85: read the next digest; empty: the tail loop; equal to the
\* chunk's hash: SAME; otherwise look ahead
ReadSig ==
    /\ pc = "read_sig"
    /\ \E io_ok \in ReadOutcomes(signature_file) :
        LET f == get_next_data(signature_file, io_ok)
        IN  /\ signature_file' = f
            /\ sig_hash' = f.chunk
            /\ Called("signature_file", "next", io_ok, f.chunk)
            /\ IF f.chunk = <<>> THEN Goto("tail_tag")
               ELSE IF hash = f.chunk THEN Goto("same")
               ELSE Goto("look_new")
    /\ UNCHANGED <<elsewhere, old, input_file, output_file, input_file_chunk, hash, lookahead>>

\* mutant: the tail loop writes the INSERTED tag
TailWriteTag_m ==
    /\ pc = "tail_tag"
    /\ WriteUnchecked(TAG_INSERTED_CHUNK, "tail_chunk")
    /\ UNCHANGED <<elsewhere, old, sources, input_file_chunk, hash, sig_hash, lookahead>>

\* 71-72: `while !input_file_chunk.is_empty()` holds here; the tag's write
TailWriteTag ==
    /\ pc = "tail_tag"
    /\ WriteUnchecked(TAG_DIFFERENT_HASH, "tail_chunk")
    /\ UNCHANGED <<elsewhere, old, sources, input_file_chunk, hash, sig_hash, lookahead>>

\* 73: the chunk's write
TailWriteChunk ==
    /\ pc = "tail_chunk"
    /\ WriteUnchecked(input_file_chunk, "tail_read")
    /\ UNCHANGED <<elsewhere, old, sources, input_file_chunk, hash, sig_hash, lookahead>>

\* mutant: the break after the tail loop is missing, the outer loop goes on
TailRead_m ==
    /\ pc = "tail_read"
    /\ \E io_ok \in ReadOutcomes(input_file) :
        LET f == get_next_data(input_file, io_ok)
        IN  /\ input_file' = f
            /\ input_file_chunk' = f.chunk
            /\ Called("input_file", "next", io_ok, f.chunk)
            /\ IF f.chunk = <<>> THEN Goto("loop") ELSE Goto("tail_tag")
    /\ UNCHANGED <<elsewhere, old, signature_file, output_file, hash, sig_hash, lookahead>>

\* 75-77: the next chunk of the new file; empty: the loop ends, break, Ok(())
TailRead ==
    /\ pc = "tail_read"
    /\ \E io_ok \in ReadOutcomes(input_file) :
        LET f == get_next_data(input_file, io_ok)
        IN  /\ input_file' = f
            /\ input_file_chunk' = f.chunk
            /\ Called("input_file", "next", io_ok, f.chunk)
            /\ IF f.chunk = <<>> THEN Return("Ok") ELSE Goto("tail_tag")
    /\ UNCHANGED <<elsewhere, old, signature_file, output_file, hash, sig_hash, lookahead>>

\* 82-84
WriteSame ==
    /\ pc = "same"
    /\ WriteOrFail(TAG_SAME_HASH, "loop")
    /\ UNCHANGED <<elsewhere, old, sources, input_file_chunk, hash, sig_hash, lookahead>>

\* 86-88: keep the chunk, read the next one and hash it (empty or not)
LookaheadNew ==
    /\ pc = "look_new"
    /\ \E io_ok \in ReadOutcomes(input_file) :
        LET f == get_next_data(input_file, io_ok)
        IN  /\ input_file_chunk_prev' = input_file_chunk
            /\ input_file' = f
            /\ input_file_chunk' = f.chunk
            /\ hash_next' = calculate_chunk_hash(f.chunk)
            /\ Called("input_file", "next", io_ok, f.chunk)
    /\ Goto("look_sig")
    /\ UNCHANGED <<elsewhere, old, signature_file, output_file, hash, sig_hash, sig_hash_prev>>

\* mutant: the insertion test compares the digest read ahead
lookahead_branch_m(prev_sig, next_hash, next_sig, cur_hash) ==
    IF next_sig = next_hash THEN "ins_tag"
    ELSE IF next_sig = cur_hash THEN "rem_tag"
    ELSE "diff_tag"

\* mutant: the removal test comes first
lookahead_branch_rem_first(prev_sig, next_hash, next_sig, cur_hash) ==
    IF next_sig = cur_hash THEN "rem_tag"
    ELSE IF prev_sig = next_hash THEN "ins_tag"
    ELSE "diff_tag"

\* 93, 103, 111: the branch the lookahead selects
lookahead_branch(prev_sig, next_hash, next_sig, cur_hash) ==
    IF prev_sig = next_hash THEN "ins_tag"
    ELSE IF next_sig = cur_hash THEN "rem_tag"
    ELSE "diff_tag"

\* 90-93, 103, 111: keep the digest, read the next one, select the branch
LookaheadSig ==
    /\ pc = "look_sig"
    /\ \E io_ok \in ReadOutcomes(signature_file) :
        LET f == get_next_data(signature_file, io_ok)
        IN  /\ sig_hash_prev' = sig_hash
            /\ signature_file' = f
            /\ sig_hash' = f.chunk
            /\ Called("signature_file", "next", io_ok, f.chunk)
            /\ Goto(lookahead_branch(sig_hash, hash_next, f.chunk, hash))
    /\ UNCHANGED <<elsewhere, old, input_file, output_file, input_file_chunk, hash,
                   input_file_chunk_prev, hash_next>>

\* 95
InsWriteTag ==
    /\ pc = "ins_tag"
    /\ WriteOrFail(TAG_INSERTED_CHUNK, "ins_chunk")
    /\ UNCHANGED <<elsewhere, old, sources, input_file_chunk, hash, sig_hash, lookahead>>

\* 96
InsWriteChunk ==
    /\ pc = "ins_chunk"
    /\ WriteOrFail(input_file_chunk_prev, "ins_same")
    /\ UNCHANGED <<elsewhere, old, sources, input_file_chunk, hash, sig_hash, lookahead>>

\* mutant: no SAME tag after the inserted chunk
InsWriteSame_m ==
    /\ pc = "ins_same"
    /\ Goto("ins_rewind")
    /\ UNCHANGED <<elsewhere, old, sources, output_file, input_file_chunk, hash, sig_hash,
                   lookahead, calls>>

\* 97-99
InsWriteSame ==
    /\ pc = "ins_same"
    /\ WriteOrFail(TAG_SAME_HASH, "ins_rewind")
    /\ UNCHANGED <<elsewhere, old, sources, input_file_chunk, hash, sig_hash, lookahead>>

\* mutant: the insertion branch leaves the digest read ahead consumed
InsRewindSig_m ==
    /\ pc = "ins_rewind"
    /\ Goto("loop")
    /\ UNCHANGED <<elsewhere, old, sources, output_file, input_file_chunk, hash, sig_hash,
                   lookahead, calls>>

\* 100-102: the digest read ahead goes back; the slice sig_hash borrows
\* signature_file's chunk, which a rewind leaves as it is
InsRewindSig ==
    /\ pc = "ins_rewind"
    /\ \E io_ok \in SeekOutcomes(signature_file) :
        /\ signature_file' = move_back_last_read(signature_file, io_ok)
        /\ Called("signature_file", "rewind", io_ok, signature_file.chunk)
        /\ IF io_ok THEN Goto("loop") ELSE Return("FileSeek")
    /\ UNCHANGED <<elsewhere, old, input_file, output_file, input_file_chunk, hash, sig_hash,
                   lookahead>>

\* 105 (left operand)
RemWriteTag ==
    /\ pc = "rem_tag"
    /\ WriteOrFail(TAG_REMOVED_CHUNK, "rem_same")
    /\ UNCHANGED <<elsewhere, old, sources, input_file_chunk, hash, sig_hash, lookahead>>

\* 105 (right operand) - 107
RemWriteSame ==
    /\ pc = "rem_same"
    /\ WriteOrFail(TAG_SAME_HASH, "rem_rewind")
    /\ UNCHANGED <<elsewhere, old, sources, input_file_chunk, hash, sig_hash, lookahead>>

\* mutant: the removal branch rewinds the signature stream
RemRewindNew_m ==
    /\ pc = "rem_rewind"
    /\ \E io_ok \in SeekOutcomes(signature_file) :
        /\ signature_file' = move_back_last_read(signature_file, io_ok)
        /\ Called("signature_file", "rewind", io_ok, signature_file.chunk)
        /\ IF io_ok THEN Goto("loop") ELSE Return("FileSeek")
    /\ UNCHANGED <<elsewhere, old, input_file, output_file, input_file_chunk, hash, sig_hash,
                   lookahead>>

\* 108-110: the chunk read ahead goes back
RemRewindNew ==
    /\ pc = "rem_rewind"
    /\ \E io_ok \in SeekOutcomes(input_file) :
        /\ input_file' = move_back_last_read(input_file, io_ok)
        /\ Called("input_file", "rewind", io_ok, input_file.chunk)
        /\ IF io_ok THEN Goto("loop") ELSE Return("FileSeek")
    /\ UNCHANGED <<elsewhere, old, signature_file, output_file, input_file_chunk, hash,
                   sig_hash, lookahead>>

\* mutant: the difference branch writes the INSERTED tag
DiffWriteTag_m ==
    /\ pc = "diff_tag"
    /\ WriteOrFail(TAG_INSERTED_CHUNK, "diff_chunk")
    /\ UNCHANGED <<elsewhere, old, sources, input_file_chunk, hash, sig_hash, lookahead>>

\* 114 (left operand)
DiffWriteTag ==
    /\ pc = "diff_tag"
    /\ WriteOrFail(TAG_DIFFERENT_HASH, "diff_chunk")
    /\ UNCHANGED <<elsewhere, old, sources, input_file_chunk, hash, sig_hash, lookahead>>

\* 114 (right operand) - 116
DiffWriteChunk ==
    /\ pc = "diff_chunk"
    /\ WriteOrFail(input_file_chunk_prev, "diff_rewind_new")
    /\ UNCHANGED <<elsewhere, old, sources, input_file_chunk, hash, sig_hash, lookahead>>

\* mutant: both rewinds are issued whatever the first one returns
DiffRewindNew_m ==
    /\ pc = "diff_rewind_new"
    /\ \E io_ok \in SeekOutcomes(input_file) :
        /\ input_file' = move_back_last_read(input_file, io_ok)
        /\ Called("input_file", "rewind", io_ok, input_file.chunk)
        /\ Goto("diff_rewind_sig")
    /\ UNCHANGED <<elsewhere, old, signature_file, output_file, input_file_chunk, hash,
                   sig_hash, lookahead>>

\* 117 (left operand): a failure returns without the second rewind
DiffRewindNew ==
    /\ pc = "diff_rewind_new"
    /\ \E io_ok \in SeekOutcomes(input_file) :
        /\ input_file' = move_back_last_read(input_file, io_ok)
        /\ Called("input_file", "rewind", io_ok, input_file.chunk)
        /\ IF io_ok THEN Goto("diff_rewind_sig") ELSE Return("FileSeek")
    /\ UNCHANGED <<elsewhere, old, signature_file, output_file, input_file_chunk, hash,
                   sig_hash, lookahead>>

\* mutant: the second rewind of the difference branch is issued on the new
\* file again
DiffRewindSig_again ==
    /\ pc = "diff_rewind_sig"
    /\ \E io_ok \in SeekOutcomes(input_file) :
        /\ input_file' = move_back_last_read(input_file, io_ok)
        /\ Called("input_file", "rewind", io_ok, input_file.chunk)
        /\ IF io_ok THEN Goto("loop") ELSE Return("FileSeek")
    /\ UNCHANGED <<elsewhere, old, signature_file, output_file, input_file_chunk, hash,
                   sig_hash, lookahead>>

\* mutant: the difference branch does not rewind the signature stream
DiffRewindSig_m ==
    /\ pc = "diff_rewind_sig"
    /\ Goto("loop")
    /\ UNCHANGED <<elsewhere, old, sources, output_file, input_file_chunk, hash, sig_hash,
                   lookahead, calls>>

\* 117 (right operand) - 119
DiffRewindSig ==
    /\ pc = "diff_rewind_sig"
    /\ \E io_ok \in SeekOutcomes(signature_file) :
        /\ signature_file' = move_back_last_read(signature_file, io_ok)
        /\ Called("signature_file", "rewind", io_ok, signature_file.chunk)
        /\ IF io_ok THEN Goto("loop") ELSE Return("FileSeek")
    /\ UNCHANGED <<elsewhere, old, input_file, output_file, input_file_chunk, hash, sig_hash,
                   lookahead>>

Next ==
    \/ ReadNew
    \/ ReadSig
    \/ TailWriteTag
    \/ TailWriteChunk
    \/ TailRead
    \/ WriteSame
    \/ LookaheadNew
    \/ LookaheadSig
    \/ InsWriteTag
    \/ InsWriteChunk
    \/ InsWriteSame
    \/ InsRewindSig
    \/ RemWriteTag
    \/ RemWriteSame
    \/ RemRewindNew
    \/ DiffWriteTag
    \/ DiffWriteChunk
    \/ DiffRewindNew
    \/ DiffRewindSig

Spec == Init /\ [][Next]_vars

(***************************************************************************)
(* The signature command: Processor::process_signature                     *)
(* (processor.rs:128-143) on a file-backed source and sink, as main.rs     *)
(* (lines 15-53) runs it; the command can be run again on the same file.   *)
(***************************************************************************)
\* main.rs:31-47: the input file is opened with the chunk size, the output
\* file is created; there is no signature input
InitSig ==
    \E chunk_size \in 1..MaxChunk, n \in Files :
        /\ old = <<>>
        /\ input_file = InputFile_new(n, chunk_size)
        /\ signature_file = InputFile_new(<<>>, HASH_SIZE)
        /\ output_file = <<>>
        /\ input_file_chunk = <<>>
        /\ hash = <<>>
        /\ sig_hash = <<>>
        /\ input_file_chunk_prev = <<>>
        /\ hash_next = <<>>
        /\ sig_hash_prev = <<>>
        /\ pc = "sig_loop"
        /\ result = "none"
        /\ calls = <<>>
        /\ earlier_runs = <<>>
        /\ mem_data = MemData_new_output

\* 132-135: read the next chunk; empty: break, Ok(()); otherwise hash it
SigRead ==
    /\ pc = "sig_loop"
    /\ \E io_ok \in ReadOutcomes(input_file) :
        LET f == get_next_data(input_file, io_ok)
        IN  /\ input_file' = f
            /\ input_file_chunk' = f.chunk
            /\ Called("input_file", "next", io_ok, f.chunk)
            /\ IF f.chunk = <<>>
               THEN Return("Ok") /\ hash' = hash
               ELSE Goto("sig_write") /\ hash' = calculate_chunk_hash(f.chunk)
    /\ UNCHANGED <<elsewhere, old, signature_file, output_file, sig_hash, lookahead>>

\* mutant: the value write_data returns is dropped
SigWrite_m ==
    /\ pc = "sig_write"
    /\ WriteUnchecked(hash, "sig_loop")
    /\ UNCHANGED <<elsewhere, old, sources, input_file_chunk, hash, sig_hash, lookahead>>

\* 137-139: write the digest; a failed write returns Err(FileWrite)
SigWrite ==
    /\ pc = "sig_write"
    /\ WriteOrFail(hash, "sig_loop")
    /\ UNCHANGED <<elsewhere, old, sources, input_file_chunk, hash, sig_hash, lookahead>>

\* main.rs:31-50, once more: the finished run is kept, the same file is
\* opened again with the same chunk size and the output file is created
\* (truncated) again
RunAgain ==
    /\ pc = "done"
    /\ earlier_runs = <<>>
    /\ earlier_runs' = <<[output_file |-> output_file, result |-> result, calls |-> calls]>>
    /\ input_file' = InputFile_new(input_file.data, input_file.chunk_size)
    /\ output_file' = <<>>
    /\ input_file_chunk' = <<>>
    /\ hash' = <<>>
    /\ pc' = "sig_loop"
    /\ result' = "none"
    /\ calls' = <<>>
    /\ UNCHANGED <<old, signature_file, sig_hash, lookahead, mem_data>>

NextSig ==
    \/ SigRead
    \/ SigWrite
    \/ RunAgain

SpecSig == InitSig /\ [][NextSig]_vars

(***************************************************************************)
(* The chunk sources on their own: an InputFile and a MemData over the     *)
(* same bytes and chunk size, driven through the ProcessorDataInput trait  *)
(* by the same sequence of calls, the InputFile first.  The sequences are  *)
(* the ones process_delta can issue: a rewind only directly after a read   *)
(* of the same source, and nothing after a rewind that reported failure.   *)
(***************************************************************************)
\* the calls made so far on one source
CallsOn(X) == SelectSeq(calls, LAMBDA c : c.on = X)

InitSource ==
    \E chunk_size \in 1..MaxChunk, n \in Files :
        /\ old = <<>>
        /\ input_file = InputFile_new(n, chunk_size)
        /\ mem_data = MemData_new_input(chunk_size, n)
        /\ signature_file = InputFile_new(<<>>, HASH_SIZE)
        /\ output_file = <<>>
        /\ input_file_chunk = <<>> /\ hash = <<>> /\ sig_hash = <<>>
        /\ input_file_chunk_prev = <<>> /\ hash_next = <<>> /\ sig_hash_prev = <<>>
        /\ pc = "source"
        /\ result = "none"
        /\ calls = <<>>
        /\ earlier_runs = <<>>

\* the InputFile is called next: the MemData has followed every call so far,
\* no rewind has failed, and the number of calls is bounded
InputTurn ==
    /\ pc = "source"
    /\ Len(CallsOn("mem_data")) = Len(CallsOn("input_file"))
    /\ Len(CallsOn("input_file")) < MaxCalls
    /\ \A i \in DOMAIN calls : calls[i].op = "rewind" => calls[i].ok

\* input_file.get_next_data()
InputNext ==
    /\ InputTurn
    /\ \E io_ok \in ReadOutcomes(input_file) :
          LET f == get_next_data(input_file, io_ok) IN
          /\ input_file' = f
          /\ Called("input_file", "next", io_ok, f.chunk)
    /\ UNCHANGED <<pc, result, mem_data, earlier_runs, old, signature_file,
                   output_file, input_file_chunk, hash, sig_hash, lookahead>>

\* input_file.move_back_last_read(), directly after a get_next_data
InputRewind ==
    /\ InputTurn
    /\ calls # <<>> /\ calls[Len(calls)].op = "next"
    /\ \E io_ok \in SeekOutcomes(input_file) :
          /\ input_file' = move_back_last_read(input_file, io_ok)
          /\ Called("input_file", "rewind", io_ok, <<>>)
    /\ UNCHANGED <<pc, result, mem_data, earlier_runs, old, signature_file,
                   output_file, input_file_chunk, hash, sig_hash, lookahead>>

\* the MemData is called next, with the call the InputFile just got
MemTurn(op) ==
    /\ pc = "source"
    /\ Len(CallsOn("mem_data")) < Len(CallsOn("input_file"))
    /\ calls[Len(calls)].op = op

\* mem_data.get_next_data()
MemNext ==
    /\ MemTurn("next")
    /\ LET m == MemData_get_next_data(mem_data) IN
          /\ mem_data' = m
          /\ Called("mem_data", "next", TRUE, m.ret)
    /\ UNCHANGED <<pc, result, input_file, earlier_runs, old, signature_file,
                   output_file, input_file_chunk, hash, sig_hash, lookahead>>

\* mem_data.move_back_last_read()
MemRewind ==
    /\ MemTurn("rewind")
    /\ mem_data' = MemData_move_back_last_read(mem_data)
    /\ Called("mem_data", "rewind", TRUE, <<>>)
    /\ UNCHANGED <<pc, result, input_file, earlier_runs, old, signature_file,
                   output_file, input_file_chunk, hash, sig_hash, lookahead>>

NextSource == InputNext \/ InputRewind \/ MemNext \/ MemRewind

SpecSource == InitSource /\ [][NextSource]_vars

(***************************************************************************)
(* Vocabulary of the properties.                                           *)
(***************************************************************************)
\* the chunks of a file: chunk_size bytes each, the last one the remainder
RECURSIVE Chunks(_, _)
Chunks(data, chunk_size) ==
    IF data = <<>> THEN <<>>
    ELSE IF Len(data) <= chunk_size THEN <<data>>
    ELSE <<SubSeq(data, 1, chunk_size)>>
         \o Chunks(SubSeq(data, chunk_size + 1, Len(data)), chunk_size)

Done == pc = "done"

\* the configured chunk size, the chunks of the new and of the old file
ChunkSize == input_file.chunk_size
NewChunks == Chunks(input_file.data, ChunkSize)
OldChunks == Chunks(old, ChunkSize)

\* the number of digests the signature file holds, and its i-th digest
SigCount == Len(signature_file.data) \div HASH_SIZE
SigDigest(i) == SubSeq(signature_file.data, (i - 1) * HASH_SIZE + 1, i * HASH_SIZE)

\* the signature file is what process_signature writes for the old file
SigOfOld == signature_file.data = process_signature(old, ChunkSize)

\* no I/O call has failed / no read has failed (a failed read is the end of
\* the stream for the engine: the file it sees is then a shorter one)
NoFault == Failed = {}
ReadsOk == \A i \in Failed : calls[i].op # "next"

\* records of a delta, as the writes that make them
SAME == <<TAG_SAME_HASH>>
LITERAL(b) == <<TAG_DIFFERENT_HASH, b>>
INSERTED(b) == <<TAG_INSERTED_CHUNK, b>>
REMOVED == <<TAG_REMOVED_CHUNK>>

Tags == {TAG_SAME_HASH, TAG_DIFFERENT_HASH, TAG_INSERTED_CHUNK, TAG_REMOVED_CHUNK}

\* n SAME records; one LITERAL record per chunk of cs
SameRun(n) == [i \in 1..n |-> TAG_SAME_HASH]
RECURSIVE Literals(_)
Literals(cs) == IF cs = <<>> THEN <<>> ELSE LITERAL(Head(cs)) \o Literals(Tail(cs))

\* a sequence without its first n elements
Drop(q, n) == SubSeq(q, n + 1, Len(q))

\* Replaying a delta (a sequence of writes) against the chunks of the old
\* file: SAME copies the next old chunk, LITERAL(b) outputs b and skips the
\* next old chunk if one remains, INSERTED(b) outputs b, REMOVED skips one
\* old chunk.  The bytes produced; a delta that cannot be replayed produces
\* the byte -1, which is in no file.
RECURSIVE Replay(_, _)
Replay(delta, oc) ==
    IF delta = <<>> THEN <<>>
    ELSE IF Head(delta) = TAG_SAME_HASH /\ oc # <<>>
         THEN Head(oc) \o Replay(Tail(delta), Tail(oc))
    ELSE IF Head(delta) = TAG_DIFFERENT_HASH /\ Len(delta) >= 2
         THEN delta[2] \o Replay(Drop(delta, 2), IF oc = <<>> THEN oc ELSE Tail(oc))
    ELSE IF Head(delta) = TAG_INSERTED_CHUNK /\ Len(delta) >= 2
         THEN delta[2] \o Replay(Drop(delta, 2), oc)
    ELSE IF Head(delta) = TAG_REMOVED_CHUNK /\ oc # <<>>
         THEN Replay(Tail(delta), Tail(oc))
    ELSE <<-1>>

(***************************************************************************)
(* C1.  Reconstruction.                                                    *)
(***************************************************************************)
\* C1: whenever process_delta returns Ok for a new file read without a read
\* failure against the signature of an old file, replaying the delta it
\* wrote against the old file yields the new file, byte for byte.
C1_Reconstruction ==
    (Done /\ result = "Ok" /\ ReadsOk /\ SigOfOld)
        => Replay(output_file, OldChunks) = input_file.data

\* The same, for the runs in which no write failed: this part holds.
ReconstructionWhenWritesSucceed ==
    (Done /\ result = "Ok" /\ NoFault /\ SigOfOld)
        => Replay(output_file, OldChunks) = input_file.data

(***************************************************************************)
(* C2.  Round trip.                                                        *)
(***************************************************************************)
\* C2: a fault-free run of process_delta on a file against that file's own
\* signature writes exactly one SAME tag per chunk of the file and nothing
\* else, also when the last chunk is partial.
C2_RoundTrip ==
    (Done /\ NoFault /\ SigOfOld /\ old = input_file.data)
        => /\ result = "Ok"
           /\ output_file = SameRun(Len(NewChunks))

\* a finished round trip of a file of several chunks, the last one partial
C2_Witness ==
    /\ Done /\ NoFault /\ SigOfOld /\ old = input_file.data
    /\ Len(NewChunks) >= 2
    /\ Len(input_file.data) % ChunkSize # 0

(***************************************************************************)
(* C3.  Insertion detection.                                               *)
(***************************************************************************)
\* nc is oc with one chunk inserted before oc[p], different from oc[p]
InsertedAt(oc, nc, p) ==
    /\ p \in 1..Len(oc)
    /\ Len(nc) = Len(oc) + 1
    /\ nc = SubSeq(oc, 1, p - 1) \o <<nc[p]>> \o SubSeq(oc, p, Len(oc))
    /\ nc[p] # oc[p]

\* C3: when the new file is the old file with one chunk X inserted before
\* the old chunk at position p, X different from that chunk, a fault-free
\* run writes SAME p times (0-based p), INSERTED(X), SAME, and SAME for each
\* of the old chunks after position p.
C3_InsertionDetected ==
    (Done /\ NoFault /\ SigOfOld)
        => \A p \in 1..Len(OldChunks) :
              InsertedAt(OldChunks, NewChunks, p)
                  => /\ result = "Ok"
                     /\ output_file = SameRun(p - 1) \o INSERTED(NewChunks[p]) \o SAME
                                      \o SameRun(Len(OldChunks) - p)

\* a finished run with a chunk inserted in the middle of the old file
C3_Witness ==
    /\ Done /\ NoFault /\ SigOfOld
    /\ \E p \in 2..(Len(OldChunks) - 1) : InsertedAt(OldChunks, NewChunks, p)

(***************************************************************************)
(* C4.  Removal detection.                                                 *)
(***************************************************************************)
\* nc is oc without its chunk at position p, which is not the last one and
\* differs from the chunk after it
RemovedAt(oc, nc, p) ==
    /\ p \in 1..(Len(oc) - 1)
    /\ oc[p] # oc[p + 1]
    /\ nc = SubSeq(oc, 1, p - 1) \o SubSeq(oc, p + 1, Len(oc))

\* what the claim expects for a removal at p
RemovalDelta(oc, p) == SameRun(p - 1) \o REMOVED \o SAME \o SameRun(Len(oc) - p - 1)

\* C4 as stated: when the new file is the old file without its chunk at
\* position p (not the last, different from the next), a fault-free run
\* writes SAME p times (0-based p), REMOVED, SAME, and SAME for each old
\* chunk after position p+1.
C4_RemovalDetected_AsStated ==
    (Done /\ NoFault /\ SigOfOld)
        => \A p \in 1..Len(OldChunks) :
              RemovedAt(OldChunks, NewChunks, p)
                  => output_file = RemovalDelta(OldChunks, p)

\* C4, amended: the same, provided the removed chunk also differs from the
\* old chunk two positions after it, when there is one (otherwise the
\* insertion test of the lookahead, which comes first, succeeds).
C4_RemovalDetected ==
    (Done /\ NoFault /\ SigOfOld)
        => \A p \in 1..Len(OldChunks) :
              ( /\ RemovedAt(OldChunks, NewChunks, p)
                /\ (p + 2 <= Len(OldChunks) => OldChunks[p] # OldChunks[p + 2]) )
                  => /\ result = "Ok"
                     /\ output_file = RemovalDelta(OldChunks, p)

\* a finished run with a chunk removed from the middle of the old file
C4_Witness ==
    /\ Done /\ NoFault /\ SigOfOld
    /\ \E p \in 2..(Len(OldChunks) - 2) :
          /\ RemovedAt(OldChunks, NewChunks, p)
          /\ OldChunks[p] # OldChunks[p + 2]

(***************************************************************************)
(* C5.  In-place change.                                                   *)
(***************************************************************************)
\* nc is oc with the chunk at position p, and only that one, changed
ChangedAt(oc, nc, p) ==
    /\ p \in 1..Len(oc)
    /\ Len(nc) = Len(oc)
    /\ nc[p] # oc[p]
    /\ \A i \in 1..Len(oc) : i # p => nc[i] = oc[i]

\* what the claim expects for a change at p
ChangeDelta(oc, nc, p) == SameRun(p - 1) \o LITERAL(nc[p]) \o SameRun(Len(oc) - p)

\* C5 as stated: when the new file is the old file with the chunk at one
\* position p replaced by different content Y, a fault-free run writes SAME
\* for every other position and LITERAL(Y) at p.
C5_InPlaceChange_AsStated ==
    (Done /\ NoFault /\ SigOfOld)
        => \A p \in 1..Len(OldChunks) :
              ChangedAt(OldChunks, NewChunks, p)
                  => output_file = ChangeDelta(OldChunks, NewChunks, p)

\* C5, amended: the same, provided that, when p is not the last position,
\* the old chunk after p differs both from the old chunk at p and from Y
\* (otherwise the lookahead takes the change for an insertion, respectively
\* for a removal).
C5_InPlaceChange ==
    (Done /\ NoFault /\ SigOfOld)
        => \A p \in 1..Len(OldChunks) :
              ( /\ ChangedAt(OldChunks, NewChunks, p)
                /\ (p < Len(OldChunks) => /\ OldChunks[p] # OldChunks[p + 1]
                                          /\ NewChunks[p] # OldChunks[p + 1]) )
                  => /\ result = "Ok"
                     /\ output_file = ChangeDelta(OldChunks, NewChunks, p)

\* a finished run with a chunk changed before the last position of the file
C5_Witness ==
    /\ Done /\ NoFault /\ SigOfOld
    /\ \E p \in 1..(Len(OldChunks) - 1) :
          /\ ChangedAt(OldChunks, NewChunks, p)
          /\ OldChunks[p] # OldChunks[p + 1]
          /\ NewChunks[p] # OldChunks[p + 1]

(***************************************************************************)
(* C6.  Tail growth.                                                       *)
(***************************************************************************)
\* the signature is a whole number of digests, and the first chunks of the
\* new file match them in order
MatchesSignature(nc) ==
    /\ Len(signature_file.data) = SigCount * HASH_SIZE
    /\ Len(nc) >= SigCount
    /\ \A i \in 1..SigCount : calculate_chunk_hash(nc[i]) = SigDigest(i)

\* C6: when the signature holds N digests and the first N chunks of the new
\* file match them in order, a fault-free run writes N SAME tags and then one
\* LITERAL record for each further chunk of the new file, in order.
C6_TailGrowth ==
    (Done /\ NoFault /\ MatchesSignature(NewChunks))
        => /\ result = "Ok"
           /\ output_file = SameRun(SigCount) \o Literals(Drop(NewChunks, SigCount))

\* a finished run on a new file with two chunks more than the signature
C6_Witness ==
    /\ Done /\ NoFault /\ MatchesSignature(NewChunks)
    /\ SigCount >= 1
    /\ Len(NewChunks) >= SigCount + 2

(***************************************************************************)
(* C7.  Signature exhaustion.                                              *)
(***************************************************************************)
\* the i-th call is a read of the signature stream that returned the empty
\* chunk / that read issued at the top of an iteration (line 68) / as the
\* lookahead read (line 91)
SigExhaustedAt(i) ==
    /\ calls[i].on = "signature_file"
    /\ calls[i].op = "next"
    /\ calls[i].data = <<>>
SigExhaustedAtTop(i) == SigExhaustedAt(i) /\ calls[i].at = "read_sig"
SigExhaustedAtLookahead(i) == SigExhaustedAt(i) /\ calls[i].at = "look_sig"

\* the data of the accepted writes among the calls i..j, in order
RECURSIVE Written(_, _)
Written(i, j) ==
    IF i > j THEN <<>>
    ELSE IF calls[i].op = "write" /\ calls[i].ok
         THEN <<calls[i].data>> \o Written(i + 1, j)
         ELSE Written(i + 1, j)

\* the number of new-file chunks the records of a delta stand for: one per
\* SAME, LITERAL and INSERTED tag
RECURSIVE Covered(_)
Covered(delta) ==
    IF delta = <<>> THEN 0
    ELSE (IF Head(delta) \in {TAG_SAME_HASH, TAG_DIFFERENT_HASH, TAG_INSERTED_CHUNK}
          THEN 1 ELSE 0) + Covered(Tail(delta))

\* the new-file chunks that remain when the i-th call is issued
RemainingAt(i) == Drop(NewChunks, Covered(Written(1, i - 1)))

\* C7 as stated: in a fault-free run, once a read of the signature stream
\* (at the top of an iteration or as the lookahead read) has returned the
\* empty chunk, what is written from then on is one LITERAL record per
\* remaining new-file chunk, and nothing else.
C7_SignatureExhausted_AsStated ==
    (Done /\ NoFault)
        => \A i \in DOMAIN calls :
              (SigExhaustedAt(i) /\ \A j \in 1..(i - 1) : ~SigExhaustedAt(j))
                  => Written(i, Len(calls)) = Literals(RemainingAt(i))

\* C7, amended: (1) in every run, after a read of the signature stream at
\* the top of an iteration has returned the empty chunk, every write is the
\* LITERAL tag or the chunk of a LITERAL record, and no rewind and no read of
\* the signature stream follows; (2) in a fault-free run, what is written
\* from then on is one LITERAL record per remaining new-file chunk; (3) in a
\* fault-free run, when the lookahead read is the first to return the empty
\* chunk, the iteration in progress writes INSERTED(prev_new), SAME or
\* LITERAL(prev_new), and what is written after it is one LITERAL record per
\* new-file chunk that remains then.
C7_SignatureExhausted ==
    /\ \A i \in DOMAIN calls : SigExhaustedAtTop(i) =>
          \A j \in (i + 1)..Len(calls) :
              /\ calls[j].op = "write" =>
                    \/ calls[j].at = "tail_tag" /\ calls[j].data = TAG_DIFFERENT_HASH
                    \/ calls[j].at = "tail_chunk" /\ calls[j].data \notin Tags
              /\ calls[j].op # "rewind"
              /\ calls[j].on # "signature_file"
    /\ (Done /\ NoFault) =>
          \A i \in DOMAIN calls :
              /\ SigExhaustedAtTop(i)
                    => Written(i, Len(calls)) = Literals(RemainingAt(i))
              /\ (SigExhaustedAtLookahead(i) /\ \A j \in 1..(i - 1) : ~SigExhaustedAt(j))
                    => LET rest == RemainingAt(i)
                       IN  \/ Written(i, Len(calls)) =
                                INSERTED(rest[1]) \o SAME \o Literals(Drop(rest, 2))
                           \/ Written(i, Len(calls)) = Literals(rest)

\* a finished fault-free run in which the lookahead read found the signature
\* exhausted, the iteration went on to write INSERTED, SAME, and the next
\* iteration found it exhausted at the top with two chunks left
C7_Witness ==
    /\ Done /\ NoFault
    /\ \E i, k \in DOMAIN calls :
          /\ i < k
          /\ SigExhaustedAtLookahead(i)
          /\ Written(i, k) = INSERTED(RemainingAt(i)[1]) \o SAME
          /\ SigExhaustedAtTop(k)
          /\ Len(RemainingAt(k)) >= 2

(***************************************************************************)
(* C8.  A failed write is fatal.                                           *)
(***************************************************************************)
\* C8: a write that reports failure is the last I/O call of the run, and the
\* run returns Err(FileWrite) at once.
C8_WriteFailureFatal ==
    \A i \in DOMAIN calls :
        (calls[i].op = "write" /\ ~calls[i].ok)
            => /\ i = Len(calls)
               /\ Done
               /\ result = "FileWrite"

\* What holds instead: outside the tail loop (lines 71-76) a failed write is
\* the last call and the run returns Err(FileWrite).
WriteFailureFatalOutsideTail ==
    \A i \in DOMAIN calls :
        (calls[i].op = "write" /\ ~calls[i].ok /\ calls[i].at \notin {"tail_tag", "tail_chunk"})
            => /\ i = Len(calls)
               /\ Done
               /\ result = "FileWrite"

(***************************************************************************)
(* C9.  A failed rewind is fatal.                                          *)
(***************************************************************************)
\* C9: a rewind that reports failure is the last I/O call of the run (so a
\* failed rewind of the new-file stream in the difference branch is not
\* followed by the rewind of the signature stream), and the run returns
\* Err(FileSeek) at once.
C9_RewindFailureFatal ==
    \A i \in DOMAIN calls :
        (calls[i].op = "rewind" /\ ~calls[i].ok)
            => /\ i = Len(calls)
               /\ Done
               /\ result = "FileSeek"

\* a run ended by the failed rewind of the new-file stream in the difference
\* branch
C9_Witness ==
    /\ Done
    /\ calls # <<>>
    /\ LET c == calls[Len(calls)]
       IN  c.op = "rewind" /\ ~c.ok /\ c.at = "diff_rewind_new" /\ c.on = "input_file"

(***************************************************************************)
(* C10.  Delta framing.                                                    *)
(***************************************************************************)
\* in a sequence of writes, every INSERTED tag is followed by a chunk and
\* then a SAME tag, every REMOVED tag by a SAME tag
Framed(delta) ==
    \A i \in DOMAIN delta :
        /\ delta[i] = TAG_INSERTED_CHUNK
              => /\ i + 2 <= Len(delta)
                 /\ delta[i + 1] \notin Tags
                 /\ delta[i + 1] # <<>>
                 /\ delta[i + 2] = TAG_SAME_HASH
        /\ delta[i] = TAG_REMOVED_CHUNK
              => /\ i + 1 <= Len(delta)
                 /\ delta[i + 1] = TAG_SAME_HASH

\* C10 as stated: in what any run, successful or aborted by an error, has
\* written to the sink, every INSERTED tag is followed by its chunk and then
\* a SAME tag, and every REMOVED tag is followed by a SAME tag.
C10_Framing_AsStated == Done => Framed(output_file)

\* C10, amended: the same for every run that does not return Err(FileWrite),
\* that is, every run that returns Ok or Err(FileSeek).
C10_Framing == (Done /\ result # "FileWrite") => Framed(output_file)

\* a run aborted by a failed rewind after it wrote an INSERTED record and,
\* before it, a REMOVED tag
C10_Witness ==
    /\ Done /\ result = "FileSeek"
    /\ \E i, j \in DOMAIN output_file :
          /\ i < j
          /\ output_file[i] = TAG_REMOVED_CHUNK
          /\ output_file[j] = TAG_INSERTED_CHUNK

(***************************************************************************)
(* C11.  Signature output.                                                 *)
(***************************************************************************)
\* the digests of a sequence of chunks, one write each
Digests(cs) == [i \in 1..Len(cs) |-> calculate_chunk_hash(cs[i])]

\* C11: a fault-free run of process_signature returns Ok and writes exactly
\* the digests of the chunks of its input, one per chunk, in order, and
\* nothing else; nothing for an empty input, one digest (of the whole
\* input) for an input shorter than one chunk.
C11_SignatureOutput ==
    (Done /\ NoFault)
        => /\ result = "Ok"
           /\ output_file = Digests(NewChunks)
           /\ (input_file.data = <<>>) => (output_file = <<>>)
           /\ (input_file.data # <<>> /\ Len(input_file.data) < ChunkSize)
                 => output_file = <<calculate_chunk_hash(input_file.data)>>

\* a finished fault-free signature run on a file of several chunks, the last
\* one partial
C11_Witness ==
    /\ Done /\ NoFault
    /\ Len(output_file) >= 2
    /\ Len(input_file.data) % ChunkSize # 0

(***************************************************************************)
(* C12.  Errors and frame of the signature engine.                         *)
(***************************************************************************)
\* C12: in a run of process_signature a write that reports failure is the
\* last I/O call (no further chunk is read, no further digest written) and
\* the run returns Err(FileWrite) at once; and no run of process_signature
\* ever rewinds its source.
C12_SignatureWriteFailure ==
    /\ \A i \in DOMAIN calls :
          (calls[i].op = "write" /\ ~calls[i].ok)
              => /\ i = Len(calls)
                 /\ Done
                 /\ result = "FileWrite"
    /\ \A i \in DOMAIN calls : calls[i].op # "rewind"

\* a signature run ended by a failed write after a first digest, with a part
\* of the input still unread
C12_Witness ==
    /\ Done /\ result = "FileWrite"
    /\ output_file # <<>>
    /\ input_file.len_to_read > 0

(***************************************************************************)
(* C13.  Rewind restores the last read.                                    *)
(***************************************************************************)
Sources == {"input_file", "mem_data"}

\* no read and no seek of the source reported failure
Clean(X) == \A i \in DOMAIN CallsOn(X) : CallsOn(X)[i].ok

\* the source as constructed; one call on it without failure; what the call
\* returned
Fresh(X) ==
    IF X = "input_file"
    THEN InputFile_new(input_file.data, input_file.chunk_size)
    ELSE MemData_new_input(input_file.chunk_size, input_file.data)

Step(X, s, op) ==
    IF X = "input_file"
    THEN IF op = "next" THEN get_next_data(s, TRUE) ELSE move_back_last_read(s, TRUE)
    ELSE IF op = "next" THEN MemData_get_next_data(s) ELSE MemData_move_back_last_read(s)

Ret(X, s, op) ==
    IF op = "rewind" THEN <<>> ELSE IF X = "input_file" THEN s.chunk ELSE s.ret

\* what a sequence of calls returns on the source in state s
RECURSIVE ReturnsOf(_, _, _)
ReturnsOf(X, s, ops) ==
    IF ops = <<>> THEN <<>>
    ELSE LET t == Step(X, s, Head(ops))
         IN  <<Ret(X, t, Head(ops))>> \o ReturnsOf(X, t, Tail(ops))

Ops(p) == [k \in DOMAIN p |-> p[k].op]
Returns(p) == [k \in DOMAIN p |-> p[k].data]

\* the calls without the read at i and the rewind after it
Without(p, i) == SubSeq(p, 1, i - 1) \o SubSeq(p, i + 2, Len(p))

\* the reads that returned a chunk and were rewound
RewoundReads(p) ==
    {i \in 1..(Len(p) - 1) :
        /\ p[i].op = "next" /\ p[i].data # <<>>
        /\ p[i + 1].op = "rewind" /\ p[i + 1].ok}

\* C13: on either source, when no call failed, a read that returned a
\* non-empty chunk c and was rewound is followed by a read that returns c
\* again, and every call returns what it returns in the same sequence of
\* calls without the rewound read and its rewind.
C13_RewindRestores ==
    \A X \in Sources :
        LET p == CallsOn(X) IN
        Clean(X) =>
            \A i \in RewoundReads(p) :
                /\ i + 2 <= Len(p) =>
                      (p[i + 2].op = "next" /\ p[i + 2].data = p[i].data)
                /\ Returns(Without(p, i))
                      = ReturnsOf(X, Fresh(X), Ops(Without(p, i)))

\* on both sources the final, partial chunk was read, rewound and read again,
\* and a further read followed
C13_Witness ==
    \A X \in Sources :
        LET p == CallsOn(X) IN
        /\ Clean(X)
        /\ \E i \in RewoundReads(p) :
              /\ i > 1
              /\ Len(p[i].data) < input_file.chunk_size
              /\ i + 3 <= Len(p)
              /\ p[i + 3].op = "next"

(***************************************************************************)
(* C14.  End-of-stream is sticky.                                          *)
(***************************************************************************)
\* C14: on either source, under every sequence of reads and rewinds the
\* delta engine can issue and whatever read failed, once a read has returned
\* the empty chunk every later read returns the empty chunk.
C14_StickyEnd ==
    \A X \in Sources :
        LET p == CallsOn(X) IN
        \A i, j \in DOMAIN p :
            (i < j /\ p[i].op = "next" /\ p[i].data = <<>> /\ p[j].op = "next")
                => p[j].data = <<>>

\* on both sources of a non-empty file a read returned a chunk, the next one
\* the empty chunk, and a rewind and a further read followed
C14_Witness ==
    \A X \in Sources :
        LET p == CallsOn(X) IN
        \E i \in DOMAIN p :
            /\ i > 1 /\ i + 2 <= Len(p)
            /\ p[i - 1].op = "next" /\ p[i - 1].data # <<>>
            /\ p[i].op = "next" /\ p[i].data = <<>>
            /\ p[i + 1].op = "rewind"
            /\ p[i + 2].op = "next"

(***************************************************************************)
(* C15.  Chunk framing.                                                    *)
(***************************************************************************)
\* the chunks a sequence of calls delivered: those returned by the reads that
\* were not rewound
RECURSIVE Net(_)
Net(p) ==
    IF p = <<>> THEN <<>>
    ELSE IF Len(p) >= 2 /\ p[1].op = "next" /\ p[2].op = "rewind"
    THEN Net(SubSeq(p, 3, Len(p)))
    ELSE IF p[1].op = "next" /\ p[1].data # <<>>
    THEN <<p[1].data>> \o Net(Tail(p))
    ELSE Net(Tail(p))

RECURSIVE Flatten(_)
Flatten(cs) == IF cs = <<>> THEN <<>> ELSE Head(cs) \o Flatten(Tail(cs))

IsPrefix(a, b) == Len(a) <= Len(b) /\ a = SubSeq(b, 1, Len(a))

\* C15: on either source, when no call failed, the chunks delivered are
\* non-empty, each of chunk_size bytes except the one that ends the stream,
\* which may have the remaining L mod chunk_size bytes; their concatenation
\* is a prefix of the stream; and a read returns the empty chunk only when
\* the chunks delivered before it make up the whole stream.
C15_ChunkFraming ==
    \A X \in Sources :
        LET p   == CallsOn(X)
            net == Net(p)
            L   == Len(input_file.data)
        IN  Clean(X) =>
            /\ IsPrefix(Flatten(net), input_file.data)
            /\ \A k \in DOMAIN net :
                  /\ net[k] # <<>>
                  /\ \/ Len(net[k]) = input_file.chunk_size
                     \/ /\ k = Len(net)
                        /\ Len(net[k]) = L % input_file.chunk_size
                        /\ Flatten(net) = input_file.data
            /\ \A i \in DOMAIN p :
                  (p[i].op = "next" /\ p[i].data = <<>>)
                      => Flatten(Net(SubSeq(p, 1, i))) = input_file.data

\* both sources delivered a file of several chunks, the last one partial,
\* with a rewind on the way, and then returned the empty chunk
C15_Witness ==
    \A X \in Sources :
        LET p == CallsOn(X) IN
        /\ Clean(X)
        /\ Len(Net(p)) >= 2
        /\ Len(input_file.data) % input_file.chunk_size # 0
        /\ RewoundReads(p) # {}
        /\ p[Len(p)].op = "next" /\ p[Len(p)].data = <<>>

(***************************************************************************)
(* C16.  Determinism of the signature.                                     *)
(***************************************************************************)
\* no read failed in a sequence of calls
ReadsOkIn(cl) == \A i \in DOMAIN cl : cl[i].op = "next" => cl[i].ok

DeltaSources == {"input_file", "signature_file"}

\* C17: in every run of process_delta, on the new file and on the signature
\* file alike, every rewind (successful or not) comes directly after a read
\* of the same source: none before the first read, no two without a read
\* between them.
C17_RewindProtocol ==
    \A X \in DeltaSources :
        LET p == CallsOn(X) IN
        \A i \in DOMAIN p :
            p[i].op = "rewind" => (i > 1 /\ p[i - 1].op = "next")

\* a run that rewound each of the two sources at least twice
C17_Witness ==
    \A X \in DeltaSources :
        LET p == CallsOn(X) IN
        Cardinality({i \in DOMAIN p : p[i].op = "rewind"}) >= 2

(***************************************************************************)
(* C18.  Cursor advance per branch.                                        *)
(***************************************************************************)
\* the cursor of a source, in chunks, before the call at index k: the chunks
\* delivered by the calls before it
Cursor(X, k) ==
    Len(Net(SelectSeq(SubSeq(calls, 1, k - 1), LAMBDA c : c.on = X)))

\* a and b are the first calls of two consecutive iterations of the loop
ConsecutiveStarts(a, b) ==
    /\ a < b
    /\ calls[a].at = "loop" /\ calls[b].at = "loop"
    /\ \A k \in (a + 1)..(b - 1) : calls[k].at # "loop"

\* where the calls of the iteration were made, and which sources it rewound
PlacesIn(a, b) == {calls[k].at : k \in a..(b - 1)}
RewoundIn(a, b) == {calls[k].on : k \in {n \in a..(b - 1) : calls[n].op = "rewind"}}

\* C18: in a run without an I/O failure, from the start of an iteration at
\* (j, i) to the start of the next one the cursors move to (j+1, i+1) after
\* SAME, to (j+2, i+1) after the insertion branch, which rewinds the
\* signature file only, to (j+1, i+2) after the removal branch, which rewinds
\* the new file only, and to (j+1, i+1) after the difference branch, which
\* rewinds both; and at the start of an iteration the files' positions are
\* those cursors.
C18_CursorAdvance ==
    NoFault =>
        /\ \A a, b \in DOMAIN calls :
              ConsecutiveStarts(a, b) =>
                  LET j  == Cursor("input_file", a)
                      i  == Cursor("signature_file", a)
                      j2 == Cursor("input_file", b)
                      i2 == Cursor("signature_file", b)
                      at == PlacesIn(a, b)
                  IN  /\ Cardinality(at \cap {"same", "ins_tag", "rem_tag", "diff_tag"}) = 1
                      /\ "same" \in at =>
                            (j2 = j + 1 /\ i2 = i + 1 /\ RewoundIn(a, b) = {})
                      /\ "ins_tag" \in at =>
                            (j2 = j + 2 /\ i2 = i + 1
                               /\ RewoundIn(a, b) = {"signature_file"})
                      /\ "rem_tag" \in at =>
                            (j2 = j + 1 /\ i2 = i + 2
                               /\ RewoundIn(a, b) = {"input_file"})
                      /\ "diff_tag" \in at =>
                            (j2 = j + 1 /\ i2 = i + 1
                               /\ RewoundIn(a, b) = DeltaSources)
        /\ pc = "loop" =>
              /\ input_file.pos = Len(Flatten(Net(CallsOn("input_file"))))
              /\ signature_file.pos = HASH_SIZE * Len(Net(CallsOn("signature_file")))

\* a finished fault-free run that went through the insertion branch, the
\* removal branch and a third kind of iteration
C18_Witness ==
    /\ NoFault /\ Done
    /\ {"ins_tag", "rem_tag"} \subseteq PlacesIn(1, Len(calls) + 1)
    /\ Cardinality(PlacesIn(1, Len(calls) + 1)
                     \cap {"same", "ins_tag", "rem_tag", "diff_tag"}) >= 3

(***************************************************************************)
(* C19.  The tail mode of process_delta.                                   *)
(***************************************************************************)
\* the read of the signature at the top of an iteration that returned the
\* empty chunk, if there is one (there is at most one)
TailStarts == {k \in DOMAIN calls : calls[k].at = "read_sig" /\ calls[k].data = <<>>}

IsWrite(c, data) == c.on = "output_file" /\ c.op = "write" /\ c.data = data
IsRead(c, X) == c.on = X /\ c.op = "next"

\* the data of the writes the sink accepted
Accepted ==
    LET w == SelectSeq(calls, LAMBDA c : c.op = "write" /\ c.ok)
    IN  [n \in DOMAIN w |-> w[n].data]

\* C19: once the signature read at the top of an iteration (call k) has
\* returned the empty chunk, the calls that follow are, for the current chunk
\* of the new file and then for each chunk the new file returns, the write of
\* the LITERAL tag, the write of that chunk and a read of the new file, and
\* nothing else: no read of the signature, no rewind; the first empty chunk
\* the new file returns ends the run with Ok.  When no read fails the chunks
\* so written are the rest of the new file in order, and the sink holds
\* exactly the data of the writes it accepted.
C19_TailMode ==
    /\ output_file = Accepted
    /\ \A k \in TailStarts :
          LET rest == SubSeq(calls, k + 1, Len(calls))
              \* the chunk the t-th round of the tail writes
              cur(t) == IF t = 0 THEN calls[k - 1].data ELSE rest[3 * t].data
              j == Cursor("input_file", k)
          IN  /\ IsRead(calls[k - 1], "input_file") /\ calls[k - 1].data # <<>>
              /\ \A n \in DOMAIN rest :
                    LET t == (n - 1) \div 3 IN
                    /\ (n - 1) % 3 = 0 => IsWrite(rest[n], TAG_DIFFERENT_HASH)
                    /\ (n - 1) % 3 = 1 => IsWrite(rest[n], cur(t))
                    /\ (n - 1) % 3 = 2 => IsRead(rest[n], "input_file")
                    /\ cur(t) # <<>>
              /\ Done <=> (rest # <<>> /\ IsRead(rest[Len(rest)], "input_file")
                             /\ rest[Len(rest)].data = <<>>)
              /\ Done => result = "Ok"
              /\ ReadsOk =>
                    /\ \A t \in 0..((Len(rest) - 1) \div 3) :
                          rest # <<>> => cur(t) = NewChunks[j + t]
                    /\ Done => Len(rest) = 3 * (Len(NewChunks) - j + 1)

\* a finished run whose tail mode began after an earlier iteration and wrote
\* two chunks
C19_Witness ==
    /\ Done /\ NoFault
    /\ \E k \in TailStarts : k > 2 /\ Len(calls) - k = 6

(***************************************************************************)
(* C20.  Branch priority.                                                  *)
(***************************************************************************)
\* the iterations that looked ahead: a is the read of the current chunk,
\* a + 1 that of its digest (prev_sig), a + 2 and a + 3 the reads ahead
LookedAhead ==
    {a \in DOMAIN calls :
        /\ calls[a].at = "loop"
        /\ a + 3 <= Len(calls)
        /\ calls[a + 3].at = "look_sig"}

InsertionHolds(a) == calls[a + 1].data = calculate_chunk_hash(calls[a + 2].data)
RemovalHolds(a) == calls[a + 3].data = calculate_chunk_hash(calls[a].data)

\* the calls of the insertion branch for the iteration that began at a
InsertionCalls(a) ==
    <<[on |-> "output_file", op |-> "write", data |-> TAG_INSERTED_CHUNK],
      [on |-> "output_file", op |-> "write", data |-> calls[a].data],
      [on |-> "output_file", op |-> "write", data |-> TAG_SAME_HASH],
      [on |-> "signature_file", op |-> "rewind", data |-> calls[a + 3].data]>>

\* C20: an iteration whose lookahead satisfies both the insertion test
\* (prev_sig = hash(next_new)) and the removal test (next_sig =
\* hash(prev_new)) goes on with the calls of the insertion branch and no
\* others: the writes of the INSERTED tag, of prev_new and of the SAME tag,
\* then the rewind of the signature file alone; a call of these that fails
\* ends the run.  The REMOVED tag is written only in an iteration whose
\* insertion test is false (and whose removal test is true).
C20_BranchPriority ==
    /\ \A a \in LookedAhead :
          (InsertionHolds(a) /\ RemovalHolds(a)) =>
              /\ \A m \in 1..4 :
                    a + 3 + m <= Len(calls) =>
                        LET c == calls[a + 3 + m] IN
                        /\ [on |-> c.on, op |-> c.op, data |-> c.data]
                              = InsertionCalls(a)[m]
                        /\ ~c.ok => (a + 3 + m = Len(calls) /\ Done)
              /\ a + 8 <= Len(calls) => calls[a + 8].at = "loop"
              /\ pc \in {"rem_tag", "rem_same", "rem_rewind", "diff_tag",
                         "diff_chunk", "diff_rewind_new", "diff_rewind_sig"}
                    => a + 3 < Len(calls)
    /\ \A k \in DOMAIN calls :
          IsWrite(calls[k], TAG_REMOVED_CHUNK) =>
              /\ k - 4 \in LookedAhead
              /\ ~InsertionHolds(k - 4)
              /\ RemovalHolds(k - 4)

\* a finished fault-free run on two adjacent chunks swapped, with both tests
\* true in its first iteration
C20_Witness ==
    /\ Done /\ NoFault
    /\ Len(OldChunks) = 2
    /\ NewChunks = <<OldChunks[2], OldChunks[1]>>
    /\ 1 \in LookedAhead /\ InsertionHolds(1) /\ RemovalHolds(1)
    /\ output_file = <<TAG_INSERTED_CHUNK, NewChunks[1], TAG_SAME_HASH>>

(***************************************************************************)
(* C21.  Multi-chunk edits.  The delta command on pairs of files that      *)
(* differ by a run of two or more chunks, over three byte values so that   *)
(* such files can have pairwise different chunks.                          *)
(***************************************************************************)
WideByte == {4, 5, 6}
WideFiles == UNION {[1..k -> WideByte] : k \in 0..MaxLen}

\* a sequence of chunks without the k chunks after the first p
Cut(cs, p, k) == SubSeq(cs, 1, p) \o SubSeq(cs, p + k + 1, Len(cs))

\* the delta command on an old and a new file one of which is the other
\* without a run of k >= 2 consecutive chunks
InitMulti ==
    \E chunk_size \in 1..MaxChunk, long \in WideFiles, inserted \in BOOLEAN :
        LET cs == Chunks(long, chunk_size) IN
        \E p \in 0..Len(cs), k \in 2..MaxLen :
            LET short == Flatten(Cut(cs, p, k))
                o == IF inserted THEN short ELSE long
                n == IF inserted THEN long ELSE short
            IN  /\ p + k <= Len(cs)
                /\ old = o
                /\ input_file = InputFile_new(n, chunk_size)
                /\ signature_file = InputFile_new(process_signature(o, chunk_size), HASH_SIZE)
                /\ output_file = <<>>
                /\ input_file_chunk = <<>> /\ hash = <<>> /\ sig_hash = <<>>
                /\ input_file_chunk_prev = <<>> /\ hash_next = <<>>
                /\ sig_hash_prev = <<>>
                /\ pc = "loop"
                /\ result = "none"
                /\ calls = <<>>
                /\ earlier_runs = <<>>
                /\ mem_data = MemData_new_output

SpecMulti == InitMulti /\ [][Next]_vars

\* the new file is the old one with k >= 2 chunks inserted after its first p
\* chunks / without the k >= 2 chunks after its first p chunks
InsertedRun(p, k) ==
    k >= 2 /\ p + k <= Len(NewChunks) /\ OldChunks = Cut(NewChunks, p, k)
RemovedRun(p, k) ==
    k >= 2 /\ p + k <= Len(OldChunks) /\ NewChunks = Cut(OldChunks, p, k)

Distinct(cs) == \A i, j \in DOMAIN cs : i # j => cs[i] # cs[j]

WrittenTags == {output_file[i] : i \in DOMAIN output_file} \cap Tags

\* C21 as stated: whenever the new file is the old one with two or more
\* consecutive chunks inserted or removed, a fault-free run writes no
\* INSERTED and no REMOVED record.
C21_MultiChunkEdit_AsStated ==
    (Done /\ NoFault) =>
        \A p \in 0..MaxLen, k \in 2..MaxLen :
            (InsertedRun(p, k) \/ RemovedRun(p, k))
                => WrittenTags \subseteq {TAG_SAME_HASH, TAG_DIFFERENT_HASH}

\* C21: when the new file is the old one with two or more consecutive chunks
\* inserted or removed after the first p chunks, and the chunks of the longer
\* of the two files are pairwise different, a fault-free run writes p SAME
\* records and then one LITERAL record for each remaining chunk of the new
\* file: no INSERTED and no REMOVED record.
C21_MultiChunkEdit ==
    (Done /\ NoFault) =>
        \A p \in 0..MaxLen, k \in 2..MaxLen :
            (\/ InsertedRun(p, k) /\ Distinct(NewChunks)
             \/ RemovedRun(p, k) /\ Distinct(OldChunks))
                => /\ result = "Ok"
                   /\ output_file = SameRun(p) \o Literals(Drop(NewChunks, p))

\* a finished fault-free run on an old file of a single chunk and a new file
\* with two further chunks before it, the three chunks different
C21_Witness ==
    /\ Done /\ NoFault
    /\ InsertedRun(0, 2) /\ Distinct(NewChunks)
    /\ Len(OldChunks) = 1

(***************************************************************************)
(* C22.  Read errors degrade to end-of-stream.  Both commands: a run is    *)
(* one of the delta command or one of the signature command.               *)
(***************************************************************************)
InitCommands == Init \/ InitSig

NextCommands == Next \/ SigRead \/ SigWrite

SpecCommands == InitCommands /\ [][NextCommands]_vars

\* the reads that failed
FailedReads == {k \in DOMAIN calls : calls[k].op = "next" /\ ~calls[k].ok}

\* the data of the writes made after call m
WritesAfter(m) ==
    LET w == SelectSeq(SubSeq(calls, m + 1, Len(calls)), LAMBDA c : c.op = "write")
    IN  [n \in DOMAIN w |-> w[n].data]

\* C22: a read of an InputFile that fails returns the empty chunk, and so
\* does every later read of that file.  When the failed read is the only
\* failure of the run: the result is never FileWrite or FileSeek; a failed
\* read of the new file at the top of process_delta's loop, in its tail loop
\* or in process_signature ends the run at once with Ok, one in the lookahead
\* ends it with Ok at the next read of the new file; after a failed read of
\* the signature every later read of the signature is the one at the top of
\* an iteration that starts the tail mode, every record written after the
\* iteration of the failure is a LITERAL record, and the finished run has
\* written one for each chunk of the new file that remained.
C22_ReadErrorIsEnd ==
    \A k \in FailedReads :
        /\ calls[k].data = <<>>
        /\ \A m \in DOMAIN calls :
              (m > k /\ calls[m].on = calls[k].on /\ calls[m].op = "next")
                  => calls[m].data = <<>>
        /\ Failed = {k} =>
              /\ result \in {"none", "Ok"}
              /\ calls[k].at \in {"loop", "tail_read", "sig_loop"}
                    => (k = Len(calls) /\ Done /\ result = "Ok")
              /\ calls[k].at = "look_new" =>
                    \A m \in DOMAIN calls :
                        (m > k /\ calls[m].on = "input_file")
                            => /\ calls[m].at \in {"loop", "rem_rewind", "diff_rewind_new"}
                               /\ calls[m].at = "loop" => (m = Len(calls) /\ Done)
              /\ calls[k].on = "signature_file" =>
                    /\ calls[k].at \in {"read_sig", "look_sig"}
                    /\ \A m \in DOMAIN calls :
                          (m > k /\ calls[m].on = "signature_file" /\ calls[m].op = "next")
                              => m \in TailStarts
                    /\ \A m \in DOMAIN calls :
                          (m > k /\ calls[m].op = "write")
                              => \/ calls[m].at \in {"tail_tag", "tail_chunk"}
                                 \/ /\ calls[k].at = "look_sig"
                                    /\ \A n \in k..m : calls[n].at # "loop"
                    /\ \A m \in TailStarts :
                          Done => WritesAfter(m)
                                    = Literals(Drop(NewChunks, Cursor("input_file", m) - 1))

\* a finished delta run in which the lookahead read of the signature failed
\* and the tail mode then wrote a LITERAL record
C22_Witness ==
    /\ Done
    /\ \E k \in FailedReads :
          /\ Failed = {k}
          /\ calls[k].at = "look_sig"
          /\ \E m \in TailStarts : m > k /\ WritesAfter(m) # <<>>

(***************************************************************************)
(* C23.  Termination.  The delta command on a new file and an arbitrary    *)
(* signature: a sequence of digests of chunks of the new file, of the      *)
(* empty chunk, and of a chunk that is in no file.                         *)
(***************************************************************************)
\* the digest of a chunk that no file holds
foreign == calculate_chunk_hash(<<6>>)

DigestsFor(n, chunk_size) ==
    {calculate_chunk_hash(c) :
        c \in {Chunks(n, chunk_size)[i] : i \in DOMAIN Chunks(n, chunk_size)}}
    \cup {calculate_chunk_hash(<<>>), foreign}

\* the new files of these runs: at most one byte longer than MaxSig
ShortFiles == {n \in Files : Len(n) <= MaxSig + 1}

InitAny ==
    \E chunk_size \in 1..MaxChunk, n \in ShortFiles :
        \E len \in 0..MaxSig :
            \E sig \in [1..len -> DigestsFor(n, chunk_size)] :
                /\ old = <<>>
                /\ input_file = InputFile_new(n, chunk_size)
                /\ signature_file = InputFile_new(Flatten(sig), HASH_SIZE)
                /\ output_file = <<>>
                /\ input_file_chunk = <<>> /\ hash = <<>> /\ sig_hash = <<>>
                /\ input_file_chunk_prev = <<>> /\ hash_next = <<>>
                /\ sig_hash_prev = <<>>
                /\ pc = "loop"
                /\ result = "none"
                /\ calls = <<>>
                /\ earlier_runs = <<>>
                /\ mem_data = MemData_new_output

SpecAny == InitAny /\ [][Next]_vars

\* process_delta is sequential code that runs on: a step that can be taken
\* is taken
FairAny == SpecAny /\ WF_vars(Next)

\* every iteration that is followed by another one has moved the new file's
\* cursor forward by at least one chunk, rewinds included; at the start of an
\* iteration the file's position is that cursor
IterationsAdvance ==
    /\ \A a, b \in DOMAIN calls :
          ConsecutiveStarts(a, b)
              => Cursor("input_file", b) >= Cursor("input_file", a) + 1
    /\ pc = "loop" =>
          input_file.pos = Len(Flatten(Net(CallsOn("input_file"))))

\* C23: for every new file and every signature, whatever I/O call fails,
\* process_delta eventually returns, and each of its iterations that does not
\* return leaves the new file's cursor at least one chunk further.
C23_Termination == (<>Done) /\ []IterationsAdvance

\* a run on a signature unrelated to the new file that went through three
\* iterations and returned
C23_Witness ==
    /\ Done
    /\ signature_file.data = foreign \o foreign
    /\ Cardinality({a \in DOMAIN calls : calls[a].at = "loop"}) >= 3

(***************************************************************************)
(* C24.  Chunk accounting.                                                 *)
(***************************************************************************)
\* the records of a delta account for the chunks nc: each SAME, LITERAL and
\* INSERTED record stands for the next chunk, the payload of a LITERAL or
\* INSERTED record is that chunk, a REMOVED record stands for none, and no
\* chunk is left over
RECURSIVE Accounts(_, _)
Accounts(delta, nc) ==
    IF delta = <<>> THEN nc = <<>>
    ELSE IF Head(delta) = TAG_SAME_HASH
         THEN nc # <<>> /\ Accounts(Tail(delta), Tail(nc))
    ELSE IF Head(delta) \in {TAG_DIFFERENT_HASH, TAG_INSERTED_CHUNK}
         THEN /\ Len(delta) >= 2 /\ nc # <<>>
              /\ delta[2] = Head(nc)
              /\ Accounts(Drop(delta, 2), Tail(nc))
    ELSE IF Head(delta) = TAG_REMOVED_CHUNK
         THEN Accounts(Tail(delta), nc)
    ELSE FALSE

\* C24: for every new file and every sequence of digests as signature, a run
\* of process_delta without an I/O failure that returns Ok has written as
\* many SAME, LITERAL and INSERTED records as the new file has chunks, the
\* payloads of the LITERAL and INSERTED records being, in order, the chunks
\* not covered by a SAME record: no record stands for the empty chunk that a
\* lookahead read returned at the end of the new file.
C24_ChunkAccounting ==
    (Done /\ result = "Ok" /\ NoFault)
        => /\ Covered(output_file) = Len(NewChunks)
           /\ Accounts(output_file, NewChunks)

\* the signature holds the digest of the empty chunk
HoldsEmptyDigest ==
    \E i \in 1..SigCount : SigDigest(i) = calculate_chunk_hash(<<>>)

\* the accounting holds in fault-free runs whose signature does not hold the
\* digest of the empty chunk
AccountingWithoutEmptyDigest ==
    (Done /\ result = "Ok" /\ NoFault /\ ~HoldsEmptyDigest)
        => /\ Covered(output_file) = Len(NewChunks)
           /\ Accounts(output_file, NewChunks)

(***************************************************************************)
(* C25.  Rewind after end-of-stream.                                       *)
(***************************************************************************)
\* this step is a rewind of the source
RewindStep(X) ==
    /\ Len(calls') = Len(calls) + 1
    /\ calls'[Len(calls')].on = X
    /\ calls'[Len(calls')].op = "rewind"

\* the most recent read of the source returned the empty chunk
AfterEmpty(X) ==
    LET p == CallsOn(X) IN
    p # <<>> /\ p[Len(p)].op = "next" /\ p[Len(p)].data = <<>>

RewindAfterEmptyStays ==
    /\ (RewindStep("input_file") /\ AfterEmpty("input_file"))
          => /\ input_file'.pos = input_file.pos
             /\ input_file'.len_to_read = input_file.len_to_read
             /\ calls'[Len(calls')].ok
    /\ (RewindStep("mem_data") /\ AfterEmpty("mem_data"))
          => mem_data'.location = mem_data.location

EmptyAgainAfterRewind ==
    \A X \in Sources :
        LET p == CallsOn(X) IN
        \A i \in DOMAIN p :
            (/\ i + 2 <= Len(p)
             /\ p[i].op = "next" /\ p[i].data = <<>>
             /\ p[i + 1].op = "rewind"
             /\ p[i + 2].op = "next")
                => p[i + 2].data = <<>>

FailedRewindStep ==
    /\ RewindStep("input_file")
    /\ ~calls'[Len(calls')].ok

FailedRewindKeepsAll ==
    FailedRewindStep
        => /\ input_file'.len_to_read = input_file.len_to_read
           /\ input_file'.pos = input_file.pos

\* C26: a move_back_last_read of the InputFile whose seek fails leaves
\* len_to_read and the read position as they were before the call.
C26_FailedRewindUnchanged == [][FailedRewindKeepsAll]_vars

\* what does hold: the read position stays (the seek did not take place), and
\* len_to_read has grown by the length of the chunk last returned
FailedRewindEffect ==
    FailedRewindStep
        => /\ input_file'.pos = input_file.pos
           /\ input_file'.len_to_read
                 = input_file.len_to_read + Len(input_file.chunk)
           /\ input_file.chunk # <<>>

FailedRewindGrowsLenToRead == [][FailedRewindEffect]_vars

=============================================================================
